---- MODULE Spec2Model ----
(***************************************************************************)
(* A model of grepo (github.com/acidbluebriggs/grepo): the named-parameter *)
(* rewriting (namedParameters, substitute, flattenArgs), the row mappers   *)
(* (MapRows, MapRow, MapRowsN, MapRowN), Execute and the RowMap accessors. *)
(*                                                                         *)
(* Go strings are sequences of one-character strings, so that              *)
(* strings.Fields, strings.HasPrefix, strings.TrimFunc, strings.Join and   *)
(* fmt.Sprintf("$%d") are computed on characters.  Go values of type `any` *)
(* are records [t |-> <dynamic type>, v |-> <value>]; the nil interface is *)
(* [t |-> "nil", v |-> 0].  Errors are records with a field kind; the nil  *)
(* error is NoErr.  A call on the database/sql engine is one entry of the  *)
(* trace of the public call that made it.                                  *)
(***************************************************************************)
EXTENDS Integers, Sequences, FiniteSets, TLC

VARIABLES
    op,      \* the public call made last ("none" after construction)
    input,   \* the arguments of that call
    ret,     \* what the call returned
    trace,   \* the engine calls the call made, in order
    m,       \* RowMap.m of the row decoder under test
    errors,  \* RowMap.errors of the row decoder under test
    hist,    \* the accessor calls made on the decoder so far (history)
    connector, \* the PostgresConnector: db (0 is the nil handle), mu (locked)
    calls,   \* per goroutine, its GetConnection call: position and locals
    handles  \* per handle tryConnect returned, what became of it (history)

vars == <<op, input, ret, trace, m, errors, hist, connector, calls, handles>>

\* the variables of the repository and of its row decoders
coreVars == <<op, input, ret, trace, m, errors, hist>>

\* the variables of the connector
connVars == <<connector, calls, handles>>

\* NewPostgresConnector: db is left nil and mu unlocked; the handle n is the
\* nth one that tryConnect returned, and 0 is the nil handle
NewPostgresConnector == [db |-> 0, mu |-> FALSE]

\* a connector that was constructed and that no goroutine uses
ConnectorUnused ==
    /\ connector = NewPostgresConnector
    /\ calls = <<>>
    /\ handles = <<>>

----------------------------------------------------------------------------
(* Bounds of the model. *)

\* the longest query, in pieces of Pieces
MaxPieces == 4
\* the longest list-valued named argument
MaxListLen == 2
\* the most rows a cursor produces
MaxRows == 3
\* the most accessor calls made on one row decoder
MaxCalls == 3

----------------------------------------------------------------------------
(* Go values. *)

NilValue == [t |-> "nil", v |-> 0]

IntValue(n) == [t |-> "int", v |-> n]

\* a []any; a nil slice has the same length and elements as an empty one
SliceValue(elems) == [t |-> "slice", v |-> elems]

\* reflect.ValueOf(v).Kind() == reflect.Slice
IsSlice(val) == val.t \in {"slice", "bytes"}

NoErr == [kind |-> "nil"]

----------------------------------------------------------------------------
(* Strings. *)

Letters == {"a", "b", "s", "x"}

DigitChars == <<"0", "1", "2", "3", "4", "5", "6", "7", "8", "9">>

\* white space that is the blank only
IsSpaceBlankOnly(c) == c = " "

\* unicode.IsSpace, on the characters of the model
IsSpace(c) == c \in {" ", "\n", "\t"}

\* unicode.IsLetter
IsLetter(c) == c \in Letters

\* unicode.IsNumber
IsNumber(c) == \E i \in 1..10 : DigitChars[i] = c

RECURSIVE Itoa(_)
\* fmt.Sprintf("%d", n) for n >= 0
Itoa(n) ==
    IF n < 10 THEN <<DigitChars[n + 1]>>
    ELSE Itoa(n \div 10) \o <<DigitChars[(n % 10) + 1]>>

RECURSIVE Join(_, _)
\* strings.Join(elems, sep)
Join(elems, sep) ==
    IF Len(elems) = 0 THEN <<>>
    ELSE IF Len(elems) = 1 THEN elems[1]
    ELSE elems[1] \o sep \o Join(Tail(elems), sep)

RECURSIVE FieldsFrom(_, _, _)
\* the fields of s[i..], cur being the field that is being read
FieldsFrom(s, i, cur) ==
    IF i > Len(s) THEN (IF cur = <<>> THEN <<>> ELSE <<cur>>)
    ELSE IF IsSpace(s[i])
         THEN (IF cur = <<>> THEN <<>> ELSE <<cur>>) \o FieldsFrom(s, i + 1, <<>>)
         ELSE FieldsFrom(s, i + 1, Append(cur, s[i]))

\* strings.Fields(s)
Fields(s) == FieldsFrom(s, 1, <<>>)

\* strings.HasPrefix(word, ":")
HasPrefix(word) == Len(word) >= 1 /\ word[1] = ":"

\* a trimming function that leaves the colon in place
TrimPredKeepsColon(r) == ~IsLetter(r) /\ ~IsNumber(r) /\ (r = "(" \/ r = ")")

\* the function handed to strings.TrimFunc by namedParameters and substitute
TrimPred(r) == ~IsLetter(r) /\ ~IsNumber(r) /\ (r = ":" \/ r = "(" \/ r = ")")

RECURSIVE TrimLeft(_)
TrimLeft(w) ==
    IF Len(w) > 0 /\ TrimPred(w[1]) THEN TrimLeft(Tail(w)) ELSE w

RECURSIVE TrimRight(_)
TrimRight(w) ==
    IF Len(w) > 0 /\ TrimPred(w[Len(w)]) THEN TrimRight(SubSeq(w, 1, Len(w) - 1)) ELSE w

\* strings.TrimFunc(word, TrimPred)
TrimFunc(word) == TrimRight(TrimLeft(word))

----------------------------------------------------------------------------
(* The parameter normalizer. *)

\* args[param] of a Go map: the nil interface when the key is absent
Lookup(args, param) == IF param \in DOMAIN args THEN args[param] ELSE NilValue

\* a paramEntry
paramEntry(name, pos, val, len) == [name |-> name, pos |-> pos, val |-> val, len |-> len]

\* the map m with m[k] = e
MapPut(mp, k, e) == [x \in (DOMAIN mp) \cup {k} |-> IF x = k THEN e ELSE mp[x]]

EmptyMap == [x \in {} |-> 0]

RECURSIVE namedParametersFrom(_, _, _, _, _)
\* the loop of namedParameters from field i on
namedParametersFrom(fields, args, i, params, position) ==
    IF i > Len(fields) THEN params
    ELSE IF HasPrefix(fields[i])
         THEN LET param == TrimFunc(fields[i])
                  val   == Lookup(args, param)
                  pos   == position + 1
                  pe    == paramEntry(param, pos, val,
                                      IF IsSlice(val) THEN Len(val.v) ELSE 1)
                  next  == IF IsSlice(val) THEN pos + Len(val.v) ELSE pos
              IN  namedParametersFrom(fields, args, i + 1, MapPut(params, param, pe), next)
         ELSE namedParametersFrom(fields, args, i + 1, params, position)

namedParameters(s, args) == namedParametersFrom(Fields(s), args, 1, EmptyMap, 0)

RECURSIVE MarkersNoAdvance(_, _)
\* Markers without the position++ of the inner loop of substitute
MarkersNoAdvance(position, n) ==
    IF n <= 0 THEN <<>>
    ELSE <<(<<"$">> \o Itoa(position))>> \o MarkersNoAdvance(position, n - 1)

RECURSIVE Markers(_, _)
\* "$position", "$position+1", ... : n markers
Markers(position, n) ==
    IF n <= 0 THEN <<>>
    ELSE <<(<<"$">> \o Itoa(position))>> \o Markers(position + 1, n - 1)

RECURSIVE substituteFrom(_, _, _, _, _)
\* the loop of substitute from field i on
substituteFrom(fields, params, i, found, position) ==
    IF i > Len(fields)
    THEN IF found # Cardinality(DOMAIN params)
         THEN [query |-> <<>>,
               err |-> [kind |-> "CountMismatch",
                        received |-> Cardinality(DOMAIN params), replaced |-> found]]
         ELSE [query |-> Join(fields, <<" ">>), err |-> NoErr]
    ELSE IF HasPrefix(fields[i])
         THEN LET param == TrimFunc(fields[i])
              IN  IF param \in DOMAIN params
                  THEN LET pe == params[param]
                       IN  substituteFrom(
                               [fields EXCEPT ![i] = Join(Markers(position, pe.len), <<",", " ">>)],
                               params, i + 1, found + 1,
                               position + (IF pe.len > 0 THEN pe.len ELSE 0))
                  ELSE [query |-> <<>>, err |-> [kind |-> "ParamNotFound", param |-> param]]
         ELSE substituteFrom(fields, params, i + 1, found, position)

substitute(sql, params) == substituteFrom(Fields(sql), params, 1, 0, 1)

----------------------------------------------------------------------------
(* flattenArgs. *)

\* the entries of a map, as a set
Values(params) == {params[k] : k \in DOMAIN params}

RECURSIVE SortedFuncDescending(_)
\* SortedFunc with the comparison turned round (entry2.pos - entry.pos)
SortedFuncDescending(es) ==
    IF es = {} THEN <<>>
    ELSE LET first == CHOOSE e \in es : \A f \in es : e.pos >= f.pos
         IN  <<first>> \o SortedFuncDescending(es \ {first})

RECURSIVE SortedFunc(_)
\* slices.SortedFunc(maps.Values(entries), by pos): the entries by ascending
\* pos.  Entries of one map never share a pos (namedParameters increments
\* position for every placeholder token), so the order is determined.
SortedFunc(es) ==
    IF es = {} THEN <<>>
    ELSE LET first == CHOOSE e \in es : \A f \in es : e.pos <= f.pos
         IN  <<first>> \o SortedFunc(es \ {first})

RECURSIVE flattenSorted(_)
\* the loop of flattenArgs over the sorted entries
flattenSorted(sorted) ==
    IF sorted = <<>> THEN <<>>
    ELSE LET pe == Head(sorted)
         IN  (IF IsSlice(pe.val) THEN pe.val.v ELSE <<pe.val>>) \o flattenSorted(Tail(sorted))

flattenArgs(entries) == flattenSorted(SortedFunc(Values(entries)))

----------------------------------------------------------------------------
(* The engine (database/sql) as the repository sees it: what each call of   *)
(* one public call answers.  A cursor row is [vals, scanOk]; the caller's   *)
(* map function fails on the rows whose number is in failOn.                *)

Ev(o, a) == [op |-> o, arg |-> a]

EngineErr(at) == [kind |-> "Engine", at |-> at]

\* fmt.Sprintf of one element of a slice argument, as MapRows formats it
FormatElem(elem) ==
    IF elem.t \in {"int", "int64"} THEN Itoa(elem.v)
    ELSE IF elem.t = "string" THEN elem.v
    ELSE <<"<", "n", "i", "l", ">">>

\* the slice-expanding loop of MapRows over args: a slice argument is replaced
\* in the caller's slice by the text of its elements joined by ", "
ExpandArgs(args) ==
    [i \in 1..Len(args) |->
        IF IsSlice(args[i])
        THEN [t |-> "string",
              v |-> Join([j \in 1..Len(args[i].v) |-> FormatElem(args[i].v[j])], <<",", " ">>)]
        ELSE args[i]]

\* toMap(cols, values): a fresh RowMap with no errors
toMap(cols, values) ==
    [m |-> [c \in {cols[i] : i \in 1..Len(cols)} |->
                values[CHOOSE i \in 1..Len(cols) :
                          cols[i] = c /\ \A j \in 1..Len(cols) : cols[j] = c => j <= i]],
     errors |-> <<>>]

\* the caller's map function: the mapped value of a row is the row's content
mapFunc(fn, n, rowMap) ==
    IF n \in fn.failOn
    THEN [r |-> NilValue, err |-> [kind |-> "Map", row |-> n]]
    ELSE [r |-> [t |-> "T", v |-> rowMap.m], err |-> NoErr]

RECURSIVE MapRowsLoopVariant(_, _, _, _, _, _, _)
\* the loop of MapRows, putting each result first when prepend holds and
\* returning the results so far with a mapping error when partial holds
MapRowsLoopVariant(script, fn, n, results, tr, prepend, partial) ==
    IF n >= Len(script.rows)
    THEN LET tr1 == tr \o <<Ev("Next", FALSE), Ev("Err", script.rowsErr)>>
         IN  IF script.rowsErr
             THEN [results |-> <<>>, err |-> EngineErr("Err"), trace |-> tr1]
             ELSE [results |-> results, err |-> NoErr, trace |-> tr1]
    ELSE LET row == script.rows[n + 1]
             tr1 == tr \o <<Ev("Next", TRUE), Ev("Scan", row.scanOk)>>
         IN  IF ~row.scanOk
             THEN [results |-> <<>>, err |-> EngineErr("Scan"), trace |-> tr1]
             ELSE LET rowMap == toMap(script.cols, row.vals)
                      mapped == mapFunc(fn, n + 1, rowMap)
                      tr2    == Append(tr1, Ev("mapFunc", rowMap))
                  IN  IF mapped.err # NoErr
                      THEN [results |-> IF partial THEN results ELSE <<>>,
                            err |-> mapped.err, trace |-> tr2]
                      ELSE MapRowsLoopVariant(script, fn, n + 1,
                               IF prepend THEN <<mapped.r>> \o results
                               ELSE Append(results, mapped.r),
                               tr2, prepend, partial)

\* the loop of MapRows with results = append([]*T{r}, results...)
MapRowsLoopPrepend(script, fn, n, results, tr) ==
    MapRowsLoopVariant(script, fn, n, results, tr, TRUE, FALSE)

\* the loop of MapRows with return results, err on a mapping error
MapRowsLoopPartial(script, fn, n, results, tr) ==
    MapRowsLoopVariant(script, fn, n, results, tr, FALSE, TRUE)

RECURSIVE MapRowsLoopSkipsErr(_, _, _, _, _)
\* the loop of MapRows without the check of rows.Err() after it
MapRowsLoopSkipsErr(script, fn, n, results, tr) ==
    IF n >= Len(script.rows)
    THEN [results |-> results, err |-> NoErr,
          trace |-> tr \o <<Ev("Next", FALSE), Ev("Err", script.rowsErr)>>]
    ELSE LET row == script.rows[n + 1]
             tr1 == tr \o <<Ev("Next", TRUE), Ev("Scan", row.scanOk)>>
         IN  IF ~row.scanOk
             THEN [results |-> <<>>, err |-> EngineErr("Scan"), trace |-> tr1]
             ELSE LET rowMap == toMap(script.cols, row.vals)
                      mapped == mapFunc(fn, n + 1, rowMap)
                      tr2    == Append(tr1, Ev("mapFunc", rowMap))
                  IN  IF mapped.err # NoErr
                      THEN [results |-> <<>>, err |-> mapped.err, trace |-> tr2]
                      ELSE MapRowsLoopSkipsErr(script, fn, n + 1,
                                               Append(results, mapped.r), tr2)

RECURSIVE MapRowsLoop(_, _, _, _, _)
\* the for rows.Next() loop of MapRows and what follows it; tr is the trace of
\* the calls made so far, closes the deferred calls, n the rows read so far
MapRowsLoop(script, fn, n, results, tr) ==
    IF n >= Len(script.rows)
    THEN LET tr1 == tr \o <<Ev("Next", FALSE), Ev("Err", script.rowsErr)>>
         IN  IF script.rowsErr
             THEN [results |-> <<>>, err |-> EngineErr("Err"), trace |-> tr1]
             ELSE [results |-> results, err |-> NoErr, trace |-> tr1]
    ELSE LET row == script.rows[n + 1]
             tr1 == tr \o <<Ev("Next", TRUE), Ev("Scan", row.scanOk)>>
         IN  IF ~row.scanOk
             THEN [results |-> <<>>, err |-> EngineErr("Scan"), trace |-> tr1]
             ELSE LET rowMap == toMap(script.cols, row.vals)
                      mapped == mapFunc(fn, n + 1, rowMap)
                      tr2    == Append(tr1, Ev("mapFunc", rowMap))
                  IN  IF mapped.err # NoErr
                      THEN [results |-> <<>>, err |-> mapped.err, trace |-> tr2]
                      ELSE MapRowsLoop(script, fn, n + 1, Append(results, mapped.r), tr2)

\* MapRows returning on a failed rows.Columns before the cursor's close is
\* deferred
MapRowsLeaksCursor(sql, args, fn, script) ==
    LET prep == <<Ev("Prepare", sql)>>
        exp  == ExpandArgs(args)
        qry  == prep \o <<Ev("Query", exp)>>
        cls  == qry \o <<Ev("Columns", script.columnsOk)>>
    IN  IF ~script.prepareOk
        THEN [results |-> <<>>, err |-> EngineErr("Prepare"), trace |-> prep, args |-> args]
        ELSE IF ~script.queryOk
        THEN [results |-> <<>>, err |-> EngineErr("Query"),
              trace |-> qry \o <<Ev("StmtClose", TRUE)>>, args |-> exp]
        ELSE IF ~script.columnsOk
        THEN [results |-> <<>>, err |-> EngineErr("Columns"),
              trace |-> cls \o <<Ev("StmtClose", TRUE)>>, args |-> exp]
        ELSE LET l == MapRowsLoop(script, fn, 0, <<>>, cls)
             IN  [results |-> l.results, err |-> l.err,
                  trace |-> l.trace \o <<Ev("RowsClose", TRUE), Ev("StmtClose", TRUE)>>,
                  args |-> exp]

\* repository.MapRows: the results, the error, the calls made (the deferred
\* rows.Close and stmt.Close included) and the caller's args after the call
MapRows(sql, args, fn, script) ==
    LET prep == <<Ev("Prepare", sql)>>
        exp  == ExpandArgs(args)
        qry  == prep \o <<Ev("Query", exp)>>
        cls  == qry \o <<Ev("Columns", script.columnsOk)>>
    IN  IF ~script.prepareOk
        THEN [results |-> <<>>, err |-> EngineErr("Prepare"), trace |-> prep, args |-> args]
        ELSE IF ~script.queryOk
        THEN [results |-> <<>>, err |-> EngineErr("Query"),
              trace |-> qry \o <<Ev("StmtClose", TRUE)>>, args |-> exp]
        ELSE IF ~script.columnsOk
        THEN [results |-> <<>>, err |-> EngineErr("Columns"),
              trace |-> cls \o <<Ev("RowsClose", TRUE), Ev("StmtClose", TRUE)>>, args |-> exp]
        ELSE LET l == MapRowsLoop(script, fn, 0, <<>>, cls)
             IN  [results |-> l.results, err |-> l.err,
                  trace |-> l.trace \o <<Ev("RowsClose", TRUE), Ev("StmtClose", TRUE)>>,
                  args |-> exp]

\* errors.Join(errors.New(msg), err) and fmt.Errorf(msg + " %w", err)
Wrap(msg, err) == [kind |-> "Wrap", msg |-> msg, inner |-> err]

\* MapRow without the check for more than one row
MapRowFirstOfMany(sql, args, fn, script) ==
    LET rs == MapRows(sql, args, fn, script)
    IN  IF rs.err # NoErr
        THEN [result |-> NilValue, err |-> Wrap("error occurred while executing row mapper", rs.err),
              trace |-> rs.trace, args |-> rs.args]
        ELSE IF Len(rs.results) = 0
        THEN [result |-> NilValue, err |-> NoErr, trace |-> rs.trace, args |-> rs.args]
        ELSE [result |-> rs.results[1], err |-> NoErr, trace |-> rs.trace, args |-> rs.args]

\* repository.MapRow: result is the mapped value, NilValue when there is none
MapRow(sql, args, fn, script) ==
    LET rs == MapRows(sql, args, fn, script)
    IN  IF rs.err # NoErr
        THEN [result |-> NilValue, err |-> Wrap("error occurred while executing row mapper", rs.err),
              trace |-> rs.trace, args |-> rs.args]
        ELSE IF Len(rs.results) > 1
        THEN [result |-> NilValue, err |-> [kind |-> "TooManyRows", rows |-> Len(rs.results)],
              trace |-> rs.trace, args |-> rs.args]
        ELSE IF Len(rs.results) = 0
        THEN [result |-> NilValue, err |-> NoErr, trace |-> rs.trace, args |-> rs.args]
        ELSE [result |-> rs.results[1], err |-> NoErr, trace |-> rs.trace, args |-> rs.args]

\* repository.MapRowsN
MapRowsN(sql, args, fn, script) ==
    LET entries == namedParameters(sql, args)
        sub     == substitute(sql, entries)
    IN  IF sub.err # NoErr
        THEN [results |-> <<>>,
              err |-> Wrap("substitution of named parameters failed", sub.err),
              trace |-> <<>>, query |-> sub.query, newArgs |-> <<>>]
        ELSE LET newArgs == flattenArgs(entries)
                 rs      == MapRows(sub.query, newArgs, fn, script)
             IN  [results |-> rs.results, err |-> rs.err, trace |-> rs.trace,
                  query |-> sub.query, newArgs |-> newArgs]

\* repository.MapRowN
MapRowN(sql, args, fn, script) ==
    LET entries == namedParameters(sql, args)
        sub     == substitute(sql, entries)
        newArgs == flattenArgs(entries)
    IN  IF sub.err # NoErr
        THEN [result |-> NilValue,
              err |-> Wrap("substitution of named parameters failed", sub.err),
              trace |-> <<>>, query |-> sub.query, newArgs |-> newArgs]
        ELSE LET r == MapRow(sub.query, newArgs, fn, script)
             IN  [result |-> r.result, err |-> r.err, trace |-> r.trace,
                  query |-> sub.query, newArgs |-> newArgs]

----------------------------------------------------------------------------
(* Execute (the Result-returning revision). *)

\* the Result struct
Result(rowsAffected, lastInsertId) ==
    [RowsAffected |-> rowsAffected, LastInsertId |-> lastInsertId]

\* Execute when tx.Exec failed, going on to the commit
ExecuteOnExecErrorCommits(exec) ==
    [r |-> Result(0, 0), trace |-> Append(exec, Ev("Commit", TRUE)),
     err |-> Wrap("func Execute() errored on Exec:", EngineErr("Exec"))]

\* Execute when tx.Exec failed: roll back and return the error
ExecuteOnExecError(exec) ==
    [r |-> Result(0, 0), trace |-> Append(exec, Ev("Rollback", TRUE)),
     err |-> Wrap("func Execute() errored on Exec:", EngineErr("Exec"))]

\* Execute after the commit: the metadata calls on the sql.Result.  A field
\* the engine cannot report is -1; rerr is the error of RowsAffected, replaced
\* by that of LastInsertId when LastInsertId fails.
ExecuteResult(script, commit) ==
    LET rerr1 == IF script.rowsAffected.ok THEN NoErr ELSE EngineErr("RowsAffected")
        rows  == IF script.rowsAffected.ok THEN script.rowsAffected.n ELSE -1
        rerr2 == IF script.lastInsertId.ok THEN rerr1 ELSE Wrap("", EngineErr("LastInsertId"))
        last  == IF script.lastInsertId.ok THEN script.lastInsertId.n ELSE -1
    IN  [r |-> Result(rows, last),
         trace |-> commit \o <<Ev("RowsAffected", script.rowsAffected.ok),
                               Ev("LastInsertId", script.lastInsertId.ok)>>,
         err |-> rerr2]

\* repository.Execute: begin, exec, commit (rollback when exec fails), then
\* the metadata of the result
Execute(sql, args, script) ==
    LET begin  == <<Ev("BeginTx", script.beginOk)>>
        exec   == Append(begin, Ev("Exec", [sql |-> sql, args |-> args, ok |-> script.execOk]))
        commit == Append(exec, Ev("Commit", script.commitOk))
    IN  IF ~script.beginOk
        THEN [r |-> Result(0, 0), trace |-> begin,
              err |-> Wrap("function Execute() errored on Exec", EngineErr("BeginTx"))]
        ELSE IF ~script.execOk
        THEN ExecuteOnExecError(exec)
        ELSE IF ~script.commitOk
        THEN [r |-> Result(0, 0), trace |-> commit,
              err |-> Wrap("func Execute() failed during Commit:", EngineErr("Commit"))]
        ELSE ExecuteResult(script, commit)

----------------------------------------------------------------------------
(* The row decoder (RowMap).  A stored value is [t, v] with t the Go type   *)
(* the driver produced; m maps column names to stored values.  An accessor  *)
(* is evaluated to [ret, errors]: what it returns and RowMap.errors after.  *)

\* two's-complement conversion T(val) of a value within 32 bits to a signed
\* integer of the given width; such a value fits int32 and int64 as it is
NarrowUnsigned(val, bits) ==
    IF bits >= 32 THEN val ELSE val % (2 ^ bits)

Narrow(val, bits) ==
    IF bits >= 32 THEN val
    ELSE LET mod == 2 ^ bits  half == 2 ^ (bits - 1)
         IN  ((val + half) % mod) - half

\* an int64 outside 32 bits is held in two parts: it stands for
\* hi * 2^16 + v, with v in 0 .. 2^16 - 1
WideValue(hi, lo) == [t |-> "int64", v |-> lo, hi |-> hi]

IsWide(val) == "hi" \in DOMAIN val

\* T(val) of an int64 held in two parts: the low bits of the value, read as a
\* signed integer of the given width
NarrowWide(stored, bits) ==
    IF bits = 64 THEN [v |-> stored.v, hi |-> stored.hi]
    ELSE IF bits = 32
    THEN LET h == stored.hi % 65536
         IN  [v |-> (IF h >= 32768 THEN h - 65536 ELSE h) * 65536 + stored.v]
    ELSE [v |-> Narrow(stored.v, bits)]

\* a value of the named type from the parts of a number
Typed(target, num) ==
    IF IsWide(num) THEN [t |-> target, v |-> num.v, hi |-> num.hi]
    ELSE [t |-> target, v |-> num.v]

\* toInteger[T]: the parts of the converted number and whether the conversion
\* failed
toInteger(bits, stored) ==
    IF stored.t \in {"int64", "int32", "int16", "int8"}
    THEN [v |-> IF IsWide(stored) THEN NarrowWide(stored, bits)
                ELSE [v |-> Narrow(stored.v, bits)],
          failed |-> FALSE]
    ELSE [v |-> [v |-> 0], failed |-> TRUE]

\* toFloat[T]; the model's stored floats are exact in float32
toFloat(stored) ==
    IF stored.t \in {"float32", "float64"}
    THEN [v |-> stored.v, failed |-> FALSE]
    ELSE [v |-> 0, failed |-> TRUE]

\* addErr keeping the last error only
addErrKeepsLast(errs, e) == <<e>>

\* RowMap.addErr
addErr(errs, e) == Append(errs, e)

\* RowMap.Err: errors.Join of the recorded errors, nil when there are none
Err(errs) == IF Len(errs) = 0 THEN NoErr ELSE [kind |-> "Join", errs |-> errs]

\* try reporting a missing key as a failed conversion of a null
tryAsReadError(rm, k) ==
    IF k \in DOMAIN rm THEN NoErr
    ELSE [kind |-> "ColReadError", key |-> k, value |-> NilValue, target |-> "any"]

\* RowMap.try
try(rm, k) == IF k \in DOMAIN rm THEN NoErr ELSE [kind |-> "KeyNotFound", key |-> k]

NewColReadError(key, value, target) ==
    [kind |-> "ColReadError", key |-> key, value |-> value, target |-> target]

\* v == w of two interface values: same dynamic type and same value
InterfaceEq(v, w) == v.t = w.t /\ v.v = w.v

\* String also taking a stored byte sequence for text
StringOfBytes(rm, errs, k) ==
    IF try(rm, k) # NoErr
    THEN [ret |-> [t |-> "string", v |-> <<>>], errors |-> addErr(errs, try(rm, k))]
    ELSE IF rm[k].t \in {"string", "bytes"}
    THEN [ret |-> [t |-> "string", v |-> rm[k].v], errors |-> errs]
    ELSE [ret |-> [t |-> "string", v |-> <<>>],
          errors |-> addErr(errs, NewColReadError(k, rm[k], "string"))]

\* RowMap.String
String(rm, errs, k) ==
    IF try(rm, k) # NoErr
    THEN [ret |-> [t |-> "string", v |-> <<>>], errors |-> addErr(errs, try(rm, k))]
    ELSE IF rm[k].t = "string"
    THEN [ret |-> rm[k], errors |-> errs]
    ELSE [ret |-> [t |-> "string", v |-> <<>>],
          errors |-> addErr(errs, NewColReadError(k, rm[k], "string"))]

\* RowMap.Int64, Int32, Int16 and Int8: target is the type's name, bits its width
IntN(rm, errs, k, target, bits) ==
    IF try(rm, k) # NoErr
    THEN [ret |-> [t |-> target, v |-> 0], errors |-> addErr(errs, try(rm, k))]
    ELSE LET c == toInteger(bits, rm[k])
         IN  IF c.failed
             THEN [ret |-> [t |-> target, v |-> 0],
                   errors |-> addErr(errs, NewColReadError(k, Typed(target, c.v), target))]
             ELSE [ret |-> Typed(target, c.v), errors |-> errs]

Int64(rm, errs, k) == IntN(rm, errs, k, "int64", 64)

Int32(rm, errs, k) == IntN(rm, errs, k, "int32", 32)

Int16(rm, errs, k) == IntN(rm, errs, k, "int16", 16)

Int8(rm, errs, k) == IntN(rm, errs, k, "int8", 8)

\* RowMap.Float64 and Float32
FloatN(rm, errs, k, target) ==
    IF try(rm, k) # NoErr
    THEN [ret |-> [t |-> target, v |-> 0], errors |-> addErr(errs, try(rm, k))]
    ELSE LET c == toFloat(rm[k])
         IN  IF c.failed
             THEN [ret |-> [t |-> target, v |-> 0],
                   errors |-> addErr(errs, NewColReadError(k, [t |-> target, v |-> c.v], target))]
             ELSE [ret |-> [t |-> target, v |-> c.v], errors |-> errs]

Float64(rm, errs, k) == FloatN(rm, errs, k, "float64")

Float32(rm, errs, k) == FloatN(rm, errs, k, "float32")

\* RowMap.Bool.  In the case for the four integer types v keeps the static
\* type any, so v == 0 compares the interface value with int(0).
Bool(rm, errs, k) ==
    IF try(rm, k) # NoErr
    THEN [ret |-> [t |-> "bool", v |-> FALSE], errors |-> addErr(errs, try(rm, k))]
    ELSE IF rm[k].t \in {"int64", "int32", "int16", "int8"}
    THEN [ret |-> [t |-> "bool", v |-> InterfaceEq(rm[k], IntValue(0))], errors |-> errs]
    ELSE [ret |-> [t |-> "bool", v |-> FALSE],
          errors |-> addErr(errs, NewColReadError(k, rm[k], "bool"))]

\* RowMap.Bytes; the error carries r, the nil []byte of the failed assertion
Bytes(rm, errs, k) ==
    IF try(rm, k) # NoErr
    THEN [ret |-> [t |-> "bytes", v |-> <<>>], errors |-> addErr(errs, try(rm, k))]
    ELSE IF rm[k].t = "bytes"
    THEN [ret |-> rm[k], errors |-> errs]
    ELSE [ret |-> [t |-> "bytes", v |-> <<>>],
          errors |-> addErr(errs, NewColReadError(k, [t |-> "bytes", v |-> <<>>], "[]byte"))]

----------------------------------------------------------------------------
(* The inputs of the model. *)

RECURSIVE SeqsUpTo(_, _)
\* the sequences over S of length at most n
SeqsUpTo(S, n) ==
    IF n = 0 THEN {<<>>}
    ELSE LET shorter == SeqsUpTo(S, n - 1)
         IN  shorter \cup {Append(q, x) : q \in shorter, x \in S}

RECURSIVE Concat(_)
\* the concatenation of a sequence of strings
Concat(ps) == IF ps = <<>> THEN <<>> ELSE Head(ps) \o Concat(Tail(ps))

\* what query texts are made of: a blank, a word, two placeholders and
\* punctuation that may touch a placeholder (tabs and newlines: SpacePieces)
Pieces == {<<" ">>, <<"s">>, <<":", "a">>, <<":", "b">>, <<",">>, <<")">>}

Queries == {Concat(ps) : ps \in SeqsUpTo(Pieces, MaxPieces)}

\* the names a caller may bind
ArgNames == {<<"a">>, <<"b">>}

\* the values a caller may bind to a name: a scalar or a list; the lists of
\* "a" are empty, of one element and of MaxListLen elements, the list of "b"
\* has MaxListLen elements
ArgValuesOf(name) ==
    LET base == IF name = <<"a">> THEN 10 ELSE 20
        lens == IF name = <<"a">> THEN {0, 1, MaxListLen} ELSE {MaxListLen}
    IN  {IntValue(base)}
        \cup {SliceValue([j \in 1..n |-> IntValue(base + j)]) : n \in lens}

\* the args mappings: every subset of the names, bound to every choice of values
ArgMaps ==
    UNION {{f \in [D -> UNION {ArgValuesOf(nm) : nm \in D}] :
               \A nm \in D : f[nm] \in ArgValuesOf(nm)} : D \in SUBSET ArgNames}

\* a map function that fails on no row
NeverFails == [failOn |-> {}]

Row(n, ok) == [vals |-> <<[t |-> "string", v |-> <<"s">>], [t |-> "int64", v |-> n]>>, scanOk |-> ok]

Cols == <<"Name", "Id">>

\* the engine answering every call and producing one row
OneRowScript ==
    [prepareOk |-> TRUE, queryOk |-> TRUE, columnsOk |-> TRUE, cols |-> Cols,
     rows |-> <<Row(1, TRUE)>>, rowsErr |-> FALSE]

----------------------------------------------------------------------------
(* The calls on a repository with named arguments. *)

InitNorm ==
    /\ op = "none"
    /\ input \in [sql : Queries, args : ArgMaps]
    /\ ret = <<>>
    /\ trace = <<>>
    /\ m = EmptyMap
    /\ errors = <<>>
    /\ hist = <<>>
    /\ ConnectorUnused

CallMapRowsN ==
    /\ op = "none"
    /\ LET r == MapRowsN(input.sql, input.args, NeverFails, OneRowScript)
       IN  /\ op' = "MapRowsN"
           /\ ret' = r
           /\ trace' = r.trace
    /\ UNCHANGED <<input, m, errors, hist, connVars>>

CallMapRowN ==
    /\ op = "none"
    /\ LET r == MapRowN(input.sql, input.args, NeverFails, OneRowScript)
       IN  /\ op' = "MapRowN"
           /\ ret' = r
           /\ trace' = r.trace
    /\ UNCHANGED <<input, m, errors, hist, connVars>>

NextNorm == CallMapRowsN \/ CallMapRowN

SpecNorm == InitNorm /\ [][NextNorm]_vars

----------------------------------------------------------------------------
(* The two passes of the normalizer, called as MapRowsN calls them.         *)

\* whole tokens a query text is made of: placeholders, one of them closed by
\* a parenthesis, a word, and a colon that runs into the token after it
ParamPieces ==
    {<<":", "a", " ">>, <<":", "b", " ">>, <<":", "a", ")", " ">>, <<"s", " ">>, <<":">>}

ParamQueries == {Concat(ps) : ps \in SeqsUpTo(ParamPieces, MaxPieces)}

\* args mappings whose keys carry the colon of the placeholder
ColonArgMaps ==
    {(<<":", "a">> :> IntValue(10)),
     (<<":", "a">> :> IntValue(10)) @@ (<<":", "b">> :> IntValue(20)),
     (<<":", "a">> :> SliceValue([j \in 1..MaxListLen |-> IntValue(10 + j)]))
         @@ (<<":", "b">> :> IntValue(20))}

InitParams ==
    /\ op = "none"
    /\ input \in [sql : ParamQueries, args : ArgMaps \cup ColonArgMaps]
    /\ ret = <<>>
    /\ trace = <<>>
    /\ m = EmptyMap
    /\ errors = <<>>
    /\ hist = <<>>
    /\ ConnectorUnused

CallNamedParameters ==
    /\ op = "none"
    /\ op' = "namedParameters"
    /\ ret' = [entries |-> namedParameters(input.sql, input.args)]
    /\ UNCHANGED <<input, trace, m, errors, hist, connVars>>

\* substitute on the entries of namedParameters, as MapRowsN calls it
CallSubstitute ==
    /\ op = "none"
    /\ op' = "substitute"
    /\ LET entries == namedParameters(input.sql, input.args)
           sub     == substitute(input.sql, entries)
       IN  ret' = [entries |-> entries, query |-> sub.query, err |-> sub.err]
    /\ UNCHANGED <<input, trace, m, errors, hist, connVars>>

NextParams == CallNamedParameters \/ CallSubstitute

SpecParams == InitParams /\ [][NextParams]_vars

\* what the white space of a query text is made of, and what it separates:
\* a blank, a tab, a newline, a word, a comma and a placeholder
SpacePieces == {<<" ">>, <<"\t">>, <<"\n">>, <<"s">>, <<",">>, <<":", "a">>}

SpaceQueries == {Concat(ps) : ps \in SeqsUpTo(SpacePieces, MaxPieces)}

\* args mappings: none, a scalar, the empty list and a list of MaxListLen
SpaceArgMaps ==
    {EmptyMap,
     (<<"a">> :> IntValue(10)),
     (<<"a">> :> SliceValue(<<>>)),
     (<<"a">> :> SliceValue([j \in 1..MaxListLen |-> IntValue(10 + j)]))}

InitSpaces ==
    /\ op = "none"
    /\ input \in [sql : SpaceQueries, args : SpaceArgMaps]
    /\ ret = <<>>
    /\ trace = <<>>
    /\ m = EmptyMap
    /\ errors = <<>>
    /\ hist = <<>>
    /\ ConnectorUnused

\* the two passes on texts with every kind of white space
SpecSpaces == InitSpaces /\ [][NextParams]_vars

----------------------------------------------------------------------------
(* The calls on a repository with positional arguments. *)

\* the most the engine reports as rows affected or as last insert id
MaxReported == 2

RowKinds == {Row(n, ok) : n \in 1..2, ok \in BOOLEAN}

MapScripts ==
    [prepareOk : BOOLEAN, queryOk : BOOLEAN, columnsOk : BOOLEAN, cols : {Cols},
     rows : SeqsUpTo(RowKinds, MaxRows), rowsErr : BOOLEAN]

MapFuncs == [failOn : SUBSET (1..MaxRows)]

\* positional arguments: none, a scalar, a scalar and a list
MapArgs == {<<>>, <<IntValue(1)>>, <<IntValue(1), SliceValue(<<IntValue(2), IntValue(3)>>)>>}

Select == <<"s">>

InitMap ==
    /\ op = "none"
    /\ input \in [sql : {Select}, args : MapArgs, fn : MapFuncs, script : MapScripts]
    /\ ret = <<>>
    /\ trace = <<>>
    /\ m = EmptyMap
    /\ errors = <<>>
    /\ hist = <<>>
    /\ ConnectorUnused

CallMapRows ==
    /\ op = "none"
    /\ LET r == MapRows(input.sql, input.args, input.fn, input.script)
       IN  /\ op' = "MapRows"
           /\ ret' = r
           /\ trace' = r.trace
    /\ UNCHANGED <<input, m, errors, hist, connVars>>

CallMapRow ==
    /\ op = "none"
    /\ LET r == MapRow(input.sql, input.args, input.fn, input.script)
       IN  /\ op' = "MapRow"
           /\ ret' = r
           /\ trace' = r.trace
    /\ UNCHANGED <<input, m, errors, hist, connVars>>

NextMap == CallMapRows \/ CallMapRow

SpecMap == InitMap /\ [][NextMap]_vars

----------------------------------------------------------------------------
(* Execute. *)

Reports == [ok : BOOLEAN, n : 0..MaxReported]

ExecScripts ==
    [beginOk : BOOLEAN, execOk : BOOLEAN, commitOk : BOOLEAN,
     rowsAffected : Reports, lastInsertId : Reports]

InitExec ==
    /\ op = "none"
    /\ input \in [sql : {Select}, args : MapArgs, script : ExecScripts]
    /\ ret = <<>>
    /\ trace = <<>>
    /\ m = EmptyMap
    /\ errors = <<>>
    /\ hist = <<>>
    /\ ConnectorUnused

CallExecute ==
    /\ op = "none"
    /\ LET r == Execute(input.sql, input.args, input.script)
       IN  /\ op' = "Execute"
           /\ ret' = r
           /\ trace' = r.trace
    /\ UNCHANGED <<input, m, errors, hist, connVars>>

NextExec == CallExecute

SpecExec == InitExec /\ [][NextExec]_vars

----------------------------------------------------------------------------
(* The public calls against an engine that may fail at any of its calls.    *)
(* An input names the kind of call it is for.                               *)

\* a named query with its arguments: a scalar and a list
NamedCalls ==
    {[sql |-> <<":", "a">>, args |-> (<<"a">> :> IntValue(10))],
     [sql |-> <<":", "a">>,
      args |-> (<<"a">> :> SliceValue([i \in 1..MaxListLen |-> IntValue(10 + i)]))]}

PositionalInputs ==
    [call : {"positional"}, sql : {Select}, args : {<<IntValue(1)>>},
     fn : MapFuncs, script : MapScripts]

NamedInputs ==
    {[call |-> "named", sql |-> c.sql, args |-> c.args, fn |-> f, script |-> s] :
        c \in NamedCalls, f \in MapFuncs, s \in MapScripts}

ExecInputs ==
    [call : {"exec"}, sql : {Select}, args : {<<IntValue(1)>>}, script : ExecScripts]

InitEngine ==
    /\ op = "none"
    /\ \/ input \in PositionalInputs
       \/ input \in NamedInputs
       \/ input \in ExecInputs
    /\ ret = <<>>
    /\ trace = <<>>
    /\ m = EmptyMap
    /\ errors = <<>>
    /\ hist = <<>>
    /\ ConnectorUnused

EngineMapRows == input.call = "positional" /\ CallMapRows

EngineMapRow == input.call = "positional" /\ CallMapRow

EngineMapRowsN ==
    /\ input.call = "named"
    /\ op = "none"
    /\ LET r == MapRowsN(input.sql, input.args, input.fn, input.script)
       IN  /\ op' = "MapRowsN"
           /\ ret' = r
           /\ trace' = r.trace
    /\ UNCHANGED <<input, m, errors, hist, connVars>>

EngineMapRowN ==
    /\ input.call = "named"
    /\ op = "none"
    /\ LET r == MapRowN(input.sql, input.args, input.fn, input.script)
       IN  /\ op' = "MapRowN"
           /\ ret' = r
           /\ trace' = r.trace
    /\ UNCHANGED <<input, m, errors, hist, connVars>>

EngineExecute == input.call = "exec" /\ CallExecute

NextEngine ==
    \/ EngineMapRows \/ EngineMapRow \/ EngineMapRowsN \/ EngineMapRowN
    \/ EngineExecute

SpecEngine == InitEngine /\ [][NextEngine]_vars

----------------------------------------------------------------------------
(* Execute of the earlier revision, which returns the rows affected.        *)

\* repository.Execute (earlier revision).  A failed BeginTx ends the process
\* in log.Fatal.  The statement is executed, rolled back when that fails,
\* executed again with args as one argument, and committed; on a transaction
\* that was rolled back the second Exec and the Commit fail with ErrTxDone.
\* The error returned is that of the second Exec, then that of RowsAffected.
ExecuteEarlier(sql, args, script) ==
    LET begin  == <<Ev("BeginTx", script.beginOk)>>
        exec   == Append(begin, Ev("Exec", [sql |-> sql, args |-> args, ok |-> script.execOk]))
        rolled == IF script.execOk THEN exec ELSE Append(exec, Ev("Rollback", TRUE))
        ok2    == script.execOk /\ script.exec2Ok
        exec2  == Append(rolled, Ev("Exec", [sql |-> sql, args |-> <<SliceValue(args)>>,
                                              ok |-> ok2]))
        commit == Append(exec2, Ev("Commit", script.execOk /\ script.commitOk))
    IN  IF ~script.beginOk
        THEN [r |-> 0, err |-> [kind |-> "Fatal"], trace |-> begin]
        ELSE IF ~ok2
        THEN [r |-> 0, err |-> EngineErr("Exec"), trace |-> commit]
        ELSE IF ~script.rowsAffected.ok
        THEN [r |-> 0, err |-> EngineErr("RowsAffected"),
              trace |-> Append(commit, Ev("RowsAffected", FALSE))]
        ELSE [r |-> script.rowsAffected.n, err |-> NoErr,
              trace |-> Append(commit, Ev("RowsAffected", TRUE))]

EarlierScripts ==
    [beginOk : BOOLEAN, execOk : BOOLEAN, exec2Ok : BOOLEAN, commitOk : BOOLEAN,
     rowsAffected : Reports]

InitExecEarlier ==
    /\ op = "none"
    /\ input \in [sql : {Select}, args : MapArgs, script : EarlierScripts]
    /\ ret = <<>>
    /\ trace = <<>>
    /\ m = EmptyMap
    /\ errors = <<>>
    /\ hist = <<>>
    /\ ConnectorUnused

CallExecuteEarlier ==
    /\ op = "none"
    /\ LET r == ExecuteEarlier(input.sql, input.args, input.script)
       IN  /\ op' = "ExecuteEarlier"
           /\ ret' = r
           /\ trace' = r.trace
    /\ UNCHANGED <<input, m, errors, hist, connVars>>

NextExecEarlier == CallExecuteEarlier

SpecExecEarlier == InitExecEarlier /\ [][NextExecEarlier]_vars

----------------------------------------------------------------------------
(* The loop of MapRows row by row: one scan buffer, one RowMap per row, and *)
(* a map function that may keep the RowMaps it was handed and read them     *)
(* later.  ret holds the scan buffer (values) and the RowMaps built so far  *)
(* (rowMaps); hist holds the accessor calls made, each with the number of   *)
(* the RowMap it was made on (dec) and the rows read at that time (at).     *)

\* the rows of a cursor: every scan succeeds
DecoderRows == SeqsUpTo({Row(n, TRUE) : n \in 1..2}, MaxRows) \ {<<>>}

\* the accessor calls a map function makes: two that fail on the rows'
\* values and one that succeeds
DecoderCalls == {<<"String", "Id">>, <<"Int64", "Name">>, <<"Int64", "Id">>}

\* the most accessor calls made on the RowMaps of one call of MapRows
MaxReads == 2

InitDecoders ==
    /\ op = "none"
    /\ input \in [cols : {Cols}, rows : DecoderRows]
    /\ ret = [values |-> <<NilValue, NilValue>>, rowMaps |-> <<>>]
    /\ trace = <<>>
    /\ m = EmptyMap
    /\ errors = <<>>
    /\ hist = <<>>
    /\ ConnectorUnused

\* one turn of the loop up to the call of mapFunc: rows.Scan overwrites the
\* scan buffer and toMap builds the RowMap of the row from it
ScanAndToMap ==
    /\ Len(ret.rowMaps) < Len(input.rows)
    /\ LET values == input.rows[Len(ret.rowMaps) + 1].vals
       IN  ret' = [values |-> values,
                   rowMaps |-> Append(ret.rowMaps, toMap(input.cols, values))]
    /\ op' = "toMap"
    /\ trace' = trace \o <<Ev("Next", TRUE), Ev("Scan", TRUE)>>
    /\ UNCHANGED <<input, m, errors, hist, connVars>>

\* an accessor call whose errors go to every RowMap
ReadOnAll(rowMaps, d, r) ==
    [i \in 1..Len(rowMaps) |-> [m |-> rowMaps[i].m, errors |-> r.errors]]

\* the RowMaps after an accessor call on the d-th that evaluated to r
ReadOn(rowMaps, d, r) ==
    [rowMaps EXCEPT ![d] = [m |-> rowMaps[d].m, errors |-> r.errors]]

\* the map function calls an accessor on a RowMap it was handed
MapFuncReads ==
    /\ Len(hist) < MaxReads
    /\ \E d \in 1..Len(ret.rowMaps) : \E c \in DecoderCalls :
           LET rm == ret.rowMaps[d]
               r  == IF c[1] = "String" THEN String(rm.m, rm.errors, c[2])
                     ELSE Int64(rm.m, rm.errors, c[2])
           IN  /\ ret' = [values |-> ret.values, rowMaps |-> ReadOn(ret.rowMaps, d, r)]
               /\ hist' = Append(hist, [dec |-> d, acc |-> c[1], key |-> c[2],
                                        at |-> Len(ret.rowMaps)])
    /\ op' = "mapFunc"
    /\ UNCHANGED <<input, trace, m, errors, connVars>>

NextDecoders == ScanAndToMap \/ MapFuncReads

SpecDecoders == InitDecoders /\ [][NextDecoders]_vars

----------------------------------------------------------------------------
(* The accessors of one row decoder. *)

\* what a driver may store in a column
StoredValues ==
    {[t |-> "int64", v |-> 0], [t |-> "int64", v |-> 5], [t |-> "int32", v |-> 0],
     [t |-> "int16", v |-> 300], [t |-> "string", v |-> <<"h", "i">>],
     [t |-> "float64", v |-> 2], [t |-> "bytes", v |-> <<1, 2>>], NilValue}

\* the column of the row, and a column the row does not have
Keys == {"n", "x"}

InitRow ==
    /\ op = "none"
    /\ input = <<>>
    /\ ret = <<>>
    /\ trace = <<>>
    /\ m \in [{"n"} -> StoredValues]
    /\ errors = <<>>
    /\ hist = <<>>
    /\ ConnectorUnused

\* one accessor call: r is what the accessor evaluates to
Access(acc, k, r) ==
    /\ Len(hist) < MaxCalls
    /\ op' = acc
    /\ input' = k
    /\ ret' = r.ret
    /\ errors' = r.errors
    /\ hist' = Append(hist, [acc |-> acc, key |-> k])
    /\ UNCHANGED <<trace, m, connVars>>

CallString == \E k \in Keys : Access("String", k, String(m, errors, k))

CallInt64 == \E k \in Keys : Access("Int64", k, Int64(m, errors, k))

CallInt32 == \E k \in Keys : Access("Int32", k, Int32(m, errors, k))

CallInt16 == \E k \in Keys : Access("Int16", k, Int16(m, errors, k))

CallInt8 == \E k \in Keys : Access("Int8", k, Int8(m, errors, k))

CallFloat64 == \E k \in Keys : Access("Float64", k, Float64(m, errors, k))

CallFloat32 == \E k \in Keys : Access("Float32", k, Float32(m, errors, k))

CallBool == \E k \in Keys : Access("Bool", k, Bool(m, errors, k))

CallBytes == \E k \in Keys : Access("Bytes", k, Bytes(m, errors, k))

CallErr ==
    /\ Len(hist) < MaxCalls
    /\ op' = "Err"
    /\ input' = ""
    /\ ret' = Err(errors)
    /\ hist' = Append(hist, [acc |-> "Err", key |-> ""])
    /\ UNCHANGED <<trace, m, errors, connVars>>

NextRow ==
    \/ CallString \/ CallInt64 \/ CallInt32 \/ CallInt16 \/ CallInt8
    \/ CallFloat64 \/ CallFloat32 \/ CallBool \/ CallBytes \/ CallErr

SpecRow == InitRow /\ [][NextRow]_vars

----------------------------------------------------------------------------
(* The integer accessors of one row decoder, over integers of every width. *)

\* integers a column may hold, those outside 32 bits in two parts, and
\* values of the other shapes
IntStoredValues ==
    {[t |-> "int64", v |-> 5], [t |-> "int64", v |-> -1],
     [t |-> "int32", v |-> 70000], [t |-> "int32", v |-> -129],
     [t |-> "int16", v |-> 300], [t |-> "int16", v |-> 200],
     [t |-> "int8", v |-> -7]}
    \cup {WideValue(hi, lo) : hi \in {32768, 65536, 65537, -32769}, lo \in {0, 200, 65535}}
    \cup {[t |-> "string", v |-> <<"7">>], [t |-> "float64", v |-> 2],
          [t |-> "bytes", v |-> <<1, 2>>], [t |-> "bool", v |-> TRUE], NilValue}

InitInt ==
    /\ op = "none"
    /\ input = <<>>
    /\ ret = <<>>
    /\ trace = <<>>
    /\ m \in [{"n"} -> IntStoredValues]
    /\ errors = <<>>
    /\ hist = <<>>
    /\ ConnectorUnused

NextInt == CallInt64 \/ CallInt32 \/ CallInt16 \/ CallInt8

SpecInt == InitInt /\ [][NextInt]_vars

----------------------------------------------------------------------------
(* What the properties below speak of. *)

\* the names of the placeholder tokens of a query, from left to right
PlaceholderNames(sql) ==
    LET ps == SelectSeq(Fields(sql), HasPrefix)
    IN  [i \in 1..Len(ps) |-> TrimFunc(ps[i])]

Distinct(q) == \A i, j \in 1..Len(q) : i # j => q[i] # q[j]

\* the slots a value takes and the values that fill them
SlotsOf(val) == IF IsSlice(val) THEN Len(val.v) ELSE 1

ValuesOf(val) == IF IsSlice(val) THEN val.v ELSE <<val>>

RECURSIVE SumSlots(_, _)
SumSlots(names, args) ==
    IF names = <<>> THEN 0
    ELSE SlotsOf(Lookup(args, Head(names))) + SumSlots(Tail(names), args)

\* the values of the placeholders, in the order of the placeholders
ExpectedArgs(names, args) ==
    Concat([i \in 1..Len(names) |-> ValuesOf(Lookup(args, names[i]))])

IsNormCall == op \in {"MapRowsN", "MapRowN"}

\* the call ended in the normalizer, with the error err of substitute inside
NormFailed ==
    /\ ret.err.kind = "Wrap"
    /\ ret.err.msg = "substitution of named parameters failed"

\* the argument sequences handed to stmt.Query by the call
QueryArgs ==
    LET qs == SelectSeq(trace, LAMBDA e : e.op = "Query")
    IN  [i \in 1..Len(qs) |-> qs[i].arg]

DigitVal(c) == (CHOOSE i \in 1..10 : DigitChars[i] = c) - 1

RECURSIVE ReadNumber(_, _, _)
\* the decimal number that starts at text[i], acc being the digits read
ReadNumber(text, i, acc) ==
    IF i <= Len(text) /\ IsNumber(text[i])
    THEN ReadNumber(text, i + 1, 10 * acc + DigitVal(text[i]))
    ELSE acc

RECURSIVE DollarNumbersFrom(_, _)
DollarNumbersFrom(text, i) ==
    IF i > Len(text) THEN <<>>
    ELSE IF text[i] = "$"
         THEN <<ReadNumber(text, i + 1, 0)>> \o DollarNumbersFrom(text, i + 1)
         ELSE DollarNumbersFrom(text, i + 1)

\* the numbers of the positional markers of a text, from left to right
DollarNumbers(text) == DollarNumbersFrom(text, 1)

\* "$start, $start+1, ..." : n markers joined by ", "
MarkerRun(start, n) ==
    Join([k \in 1..n |-> <<"$">> \o Itoa(start + k - 1)], <<",", " ">>)

\* the text a rewrite should give: each placeholder token replaced by one
\* marker per slot, numbered on from the slots of the placeholders before it
ExpectedText(sql, args) ==
    LET fs == Fields(sql)
        slots(i) == IF HasPrefix(fs[i]) THEN SlotsOf(Lookup(args, TrimFunc(fs[i]))) ELSE 0
        before[i \in 0..Len(fs)] == IF i = 0 THEN 0 ELSE before[i - 1] + slots(i)
    IN  Join([i \in 1..Len(fs) |->
                 IF HasPrefix(fs[i]) THEN MarkerRun(before[i - 1] + 1, slots(i)) ELSE fs[i]],
             <<" ">>)

----------------------------------------------------------------------------
(* The named-argument calls (SpecNorm). *)

\* C1: when the placeholder names of the query are pairwise distinct and all
\* bound in args, MapRowN/MapRowsN do not fail in the normalizer, and the
\* positional arguments (those computed, and those handed to the engine) are
\* the placeholders' values in the order of the placeholders, a list giving
\* its elements in order; their number is the sum of the slot counts.
C1_ArgsFollowPlaceholders ==
    IsNormCall =>
        LET names == PlaceholderNames(input.sql)
        IN  (Distinct(names) /\ \A i \in 1..Len(names) : names[i] \in DOMAIN input.args) =>
                /\ ~NormFailed
                /\ ret.newArgs = ExpectedArgs(names, input.args)
                /\ Len(ret.newArgs) = SumSlots(names, input.args)
                /\ QueryArgs = <<ExpectedArgs(names, input.args)>>

\* a call with two bound placeholders, the first one a list of two or more
C1_Witness ==
    /\ IsNormCall
    /\ LET names == PlaceholderNames(input.sql)
       IN  /\ Len(names) = 2
           /\ Distinct(names)
           /\ \A i \in 1..2 : names[i] \in DOMAIN input.args
           /\ IsSlice(input.args[names[1]])
           /\ Len(input.args[names[1]].v) >= 2
           /\ ~IsSlice(input.args[names[2]])
           /\ Len(ret.newArgs) >= 3

\* C2: in the rewritten text every placeholder token is replaced by one marker
\* per slot, joined by ", "; the markers of the text are $1, $2, ... from left
\* to right without gap or repeat, and there are as many as positional
\* arguments handed to the engine.
C2_MarkersConsecutive ==
    (IsNormCall /\ ~NormFailed) =>
        /\ ret.query = ExpectedText(input.sql, input.args)
        /\ DollarNumbers(ret.query) = [i \in 1..Len(ret.newArgs) |-> i]
        /\ \A i \in 1..Len(QueryArgs) : Len(QueryArgs[i]) = Len(DollarNumbers(ret.query))

\* a rewrite of two placeholders that wrote three markers or more
C2_Witness ==
    /\ IsNormCall
    /\ ~NormFailed
    /\ Len(PlaceholderNames(input.sql)) = 2
    /\ Len(DollarNumbers(ret.query)) >= 3
    /\ Len(QueryArgs) = 1

\* C3: a call whose query has a placeholder that args does not bind fails
\* with the unresolved-parameter error and makes no call on the engine.
C3_UnboundPlaceholderFails ==
    IsNormCall =>
        LET names == PlaceholderNames(input.sql)
        IN  (\E i \in 1..Len(names) : names[i] \notin DOMAIN input.args) =>
                /\ NormFailed
                /\ ret.err.inner.kind = "ParamNotFound"
                /\ trace = <<>>

----------------------------------------------------------------------------
(* The positional calls (SpecMap). *)

\* the engine answered every call and the map function failed on no row
AllOk ==
    /\ input.script.prepareOk /\ input.script.queryOk /\ input.script.columnsOk
    /\ ~input.script.rowsErr
    /\ \A i \in 1..Len(input.script.rows) :
           input.script.rows[i].scanOk /\ i \notin input.fn.failOn

\* what the map function makes of the i-th row of the cursor
Mapped(i) ==
    [t |-> "T",
     v |-> [c \in {"Name", "Id"} |->
               IF c = "Name" THEN input.script.rows[i].vals[1]
               ELSE input.script.rows[i].vals[2]]]

\* C4: MapRow returns (nil, nil) on a cursor of no row, the mapped value of
\* the row and no error on a cursor of one row, and an error with no value on
\* a cursor of two rows or more.
C4_MapRowByRowCount ==
    op = "MapRow" =>
        LET n == Len(input.script.rows)
        IN  /\ (AllOk /\ n = 0) => (ret.result = NilValue /\ ret.err = NoErr)
            /\ (AllOk /\ n = 1) => (ret.result = Mapped(1) /\ ret.err = NoErr)
            /\ n >= 2 => (ret.result = NilValue /\ ret.err # NoErr)

\* MapRow on a cursor of exactly one row returned that row's value
C4_Witness ==
    /\ op = "MapRow"
    /\ AllOk
    /\ Len(input.script.rows) = 1
    /\ ret.result = Mapped(1)
    /\ ret.err = NoErr

\* C5: when MapRows succeeds it returns one result per row of the cursor, the
\* i-th result being the map function's result for the i-th row.
C5_ResultsInCursorOrder ==
    (op = "MapRows" /\ ret.err = NoErr) =>
        /\ Len(ret.results) = Len(input.script.rows)
        /\ \A i \in 1..Len(ret.results) : ret.results[i] = Mapped(i)

\* MapRows succeeded on a cursor of two rows that differ
C5_Witness ==
    /\ op = "MapRows"
    /\ ret.err = NoErr
    /\ Len(input.script.rows) >= 2
    /\ input.script.rows[1] # input.script.rows[2]
    /\ Len(ret.results) = Len(input.script.rows)

\* the map function is called on row k and k is the first row it fails on
FirstMapFailure(k) ==
    /\ input.script.prepareOk /\ input.script.queryOk /\ input.script.columnsOk
    /\ k \in 1..Len(input.script.rows)
    /\ k \in input.fn.failOn
    /\ \A i \in 1..k : input.script.rows[i].scanOk
    /\ \A i \in 1..(k - 1) : i \notin input.fn.failOn

\* the calls of the map function made by the call
MapFuncCalls == SelectSeq(trace, LAMBDA e : e.op = "mapFunc")

\* C6: when the map function returns an error for a row, MapRows returns
\* that error and no result, and does not call the map function again.
C6_MapErrorStopsMapRows ==
    op = "MapRows" =>
        \A k \in 1..Len(input.script.rows) :
            FirstMapFailure(k) =>
                /\ ret.err = [kind |-> "Map", row |-> k]
                /\ ret.results = <<>>
                /\ Len(MapFuncCalls) = k

\* the map function failed on the second of three rows
C6_Witness ==
    /\ op = "MapRows"
    /\ FirstMapFailure(2)
    /\ Len(input.script.rows) >= 3
    /\ ret.err = [kind |-> "Map", row |-> 2]

----------------------------------------------------------------------------
(* Execute (SpecExec). *)

\* C7: in Execute a failing exec is followed at once by the rollback of the
\* transaction, no commit is made, and the call returns an error.
C7_FailedExecRollsBack ==
    op = "Execute" =>
        \A i \in 1..Len(trace) :
            (trace[i].op = "Exec" /\ ~trace[i].arg.ok) =>
                /\ i < Len(trace)
                /\ trace[i + 1].op = "Rollback"
                /\ \A j \in 1..Len(trace) : trace[j].op # "Commit"
                /\ ret.err # NoErr

\* an Execute whose exec failed
C7_Witness ==
    /\ op = "Execute"
    /\ input.script.beginOk
    /\ ~input.script.execOk
    /\ \E i \in 1..Len(trace) : trace[i].op = "Rollback"

\* begin, exec and commit succeeded and some metadata call failed
MetadataShortfall ==
    /\ op = "Execute"
    /\ input.script.beginOk /\ input.script.execOk /\ input.script.commitOk
    /\ (~input.script.rowsAffected.ok \/ ~input.script.lastInsertId.ok)

\* each field the engine cannot report is -1, each other the engine's value
FieldsReported ==
    /\ ret.r.RowsAffected =
           (IF input.script.rowsAffected.ok THEN input.script.rowsAffected.n ELSE -1)
    /\ ret.r.LastInsertId =
           (IF input.script.lastInsertId.ok THEN input.script.lastInsertId.n ELSE -1)

\* C8: when begin, exec and commit succeed and the engine cannot report the
\* rows affected and/or the last insert id, Execute returns no error, and a
\* Result with -1 in each field the engine cannot report and the engine's
\* value in each other.
C8_ShortfallReturnsNoError ==
    MetadataShortfall => (ret.err = NoErr /\ FieldsReported)

----------------------------------------------------------------------------
(* The row decoder (SpecRow). *)

IntTypes == {"int64", "int32", "int16", "int8"}

\* the stored types an accessor reads without error
Accepts(acc) ==
    CASE acc = "String" -> {"string"}
      [] acc \in {"Int64", "Int32", "Int16", "Int8", "Bool"} -> IntTypes
      [] acc \in {"Float64", "Float32"} -> {"float64", "float32"}
      [] acc = "Bytes" -> {"bytes"}
      [] OTHER -> {}

\* the accessor call c of the history failed
Failed(c) ==
    /\ c.acc # "Err"
    /\ (c.key \notin DOMAIN m \/ m[c.key].t \notin Accepts(c.acc))

FailedCalls == SelectSeq(hist, Failed)

\* C9: the error list of a decoder holds one entry per failed accessor call,
\* in the order of the calls, whatever calls of Err() came between, and Err()
\* returns nil exactly when no accessor call has failed.
C9_OneErrorPerFailedCall ==
    /\ Len(errors) = Len(FailedCalls)
    /\ \A i \in 1..Len(errors) :
           /\ errors[i].key = FailedCalls[i].key
           /\ (errors[i].kind = "KeyNotFound") = (FailedCalls[i].key \notin DOMAIN m)
    /\ op = "Err" => ((ret = NoErr) = (FailedCalls = <<>>))

\* a failed call, Err(), and a second failed call on another key
C9_Witness ==
    /\ Len(hist) = 3
    /\ hist[2].acc = "Err"
    /\ Failed(hist[1])
    /\ Failed(hist[3])
    /\ hist[1].key # hist[3].key
    /\ Len(errors) = 2

\* C10: on a stored integer Bool returns true exactly when the stored value
\* is zero, and records no error.
C10_BoolTrueIffZero ==
    (op = "Bool" /\ input \in DOMAIN m /\ m[input].t \in IntTypes) =>
        /\ ret.v = (m[input].v = 0)
        /\ Len(errors) = Len(FailedCalls)

\* the integer accessors and the widths of their types
IntAccessors == {"Int64", "Int32", "Int16", "Int8"}

WidthOf(acc) ==
    IF acc = "Int64" THEN 64 ELSE IF acc = "Int32" THEN 32
    ELSE IF acc = "Int16" THEN 16 ELSE 8

TypeOf(acc) ==
    IF acc = "Int64" THEN "int64" ELSE IF acc = "Int32" THEN "int32"
    ELSE IF acc = "Int16" THEN "int16" ELSE "int8"

\* r is the stored integer s taken modulo 2^w and read as a signed integer of
\* w bits.  A stored integer in two parts is congruent to its low part modulo
\* 2^8 and 2^16, and modulo 2^32 its two parts are compared one by one.
IsConversion(s, r, w) ==
    IF w = 64
    THEN IsWide(r) = IsWide(s) /\ r.v = s.v /\ (IsWide(s) => r.hi = s.hi)
    ELSE IF w = 32
    THEN /\ ~IsWide(r)
         /\ IF IsWide(s)
            THEN r.v % 65536 = s.v /\ ((r.v \div 65536) - s.hi) % 65536 = 0
            ELSE r.v = s.v
    ELSE /\ ~IsWide(r)
         /\ r.v \in -(2 ^ (w - 1)) .. (2 ^ (w - 1)) - 1
         /\ (r.v - s.v) % (2 ^ w) = 0

\* the call added exactly one error to the errors recorded before it
OneErrorAdded == Len(errors') = Len(errors) + 1 /\ SubSeq(errors', 1, Len(errors)) = errors

\* C11: Int64, Int32, Int16 and Int8 on a column the row has return a stored
\* integer of any width converted to their own width (the value modulo 2^w,
\* two's complement) and record no error; on a stored value of another shape
\* (text, float, bytes, bool, null) they return 0 and record exactly one error.
C11_IntegersConvertToWidth ==
    [][(op' \in IntAccessors /\ input' \in DOMAIN m) =>
          IF m[input'].t \in IntTypes
          THEN /\ ret'.t = TypeOf(op')
               /\ IsConversion(m[input'], ret', WidthOf(op'))
               /\ errors' = errors
          ELSE /\ ret' = [t |-> TypeOf(op'), v |-> 0]
               /\ OneErrorAdded
               /\ errors'[Len(errors')].kind = "ColReadError"]_vars

\* Int32 of a stored int64 outside 32 bits whose low 32 bits read as a negative
\* number, after a call that failed
C11_Witness ==
    /\ op = "Int32"
    /\ input = "n"
    /\ IsWide(m["n"])
    /\ ret.v < 0
    /\ Len(hist) = 2

\* the stored shape an exact-shape accessor takes
ShapeOf(acc) == IF acc = "String" THEN "string" ELSE "bytes"

\* C12: String and Bytes on a column the row has return the stored value
\* unchanged and record no error exactly when the stored value is text (String)
\* or a byte sequence (Bytes); on every other stored shape, null included, they
\* return the empty value and record exactly one error.
C12_ExactShapeAccessors ==
    [][(op' \in {"String", "Bytes"} /\ input' \in DOMAIN m) =>
          IF m[input'].t = ShapeOf(op')
          THEN ret' = m[input'] /\ errors' = errors
          ELSE /\ ret' = [t |-> ShapeOf(op'), v |-> <<>>]
               /\ OneErrorAdded
               /\ errors'[Len(errors')].kind = "ColReadError"]_vars

\* String succeeded on a stored text and Bytes then failed on it
C12_Witness ==
    /\ Len(hist) = 2
    /\ hist[1] = [acc |-> "String", key |-> "n"]
    /\ hist[2] = [acc |-> "Bytes", key |-> "n"]
    /\ m["n"].t = "string"
    /\ ret = [t |-> "bytes", v |-> <<>>]
    /\ Len(errors) = 1

\* the typed accessors and the zero values of their types
TypedAccessors ==
    {"String", "Int64", "Int32", "Int16", "Int8", "Float64", "Float32", "Bool", "Bytes"}

ZeroOf(acc) ==
    IF acc = "String" THEN [t |-> "string", v |-> <<>>]
    ELSE IF acc = "Bytes" THEN [t |-> "bytes", v |-> <<>>]
    ELSE IF acc = "Bool" THEN [t |-> "bool", v |-> FALSE]
    ELSE IF acc = "Float64" THEN [t |-> "float64", v |-> 0]
    ELSE IF acc = "Float32" THEN [t |-> "float32", v |-> 0]
    ELSE [t |-> TypeOf(acc), v |-> 0]

\* C13: every typed accessor called with a column name the row does not have
\* returns the zero value of its type and records exactly one error, the
\* key-not-found error of that name and not a ColReadError.
C13_MissingColumnIsKeyNotFound ==
    [][(op' \in TypedAccessors /\ input' \notin DOMAIN m) =>
          /\ ret' = ZeroOf(op')
          /\ OneErrorAdded
          /\ errors'[Len(errors')] = [kind |-> "KeyNotFound", key |-> input']]_vars

\* Bool and Float32 each called with the missing column, one error each
C13_Witness ==
    /\ Len(hist) = 2
    /\ hist[1] = [acc |-> "Bool", key |-> "x"]
    /\ hist[2] = [acc |-> "Float32", key |-> "x"]
    /\ "x" \notin DOMAIN m
    /\ Len(errors) = 2
    /\ errors[2].kind = "KeyNotFound"

\* the places of the calls of one kind in the trace
Calls(o) == {i \in 1..Len(trace) : trace[i].op = o}

\* the calls made on the cursor
CursorCalls == Calls("Columns") \cup Calls("Next") \cup Calls("Scan") \cup Calls("Err")

\* C14: when MapRows returns, on whatever path, a statement that was prepared
\* has been closed exactly once, after every other call, and a cursor that
\* was opened has been closed exactly once, after every call made on it; a
\* statement or cursor that was not obtained is not closed.
C14_StatementAndCursorClosedOnce ==
    (op \in {"MapRows", "MapRow"}) =>
        /\ Cardinality(Calls("StmtClose")) = IF input.script.prepareOk THEN 1 ELSE 0
        /\ Cardinality(Calls("RowsClose")) =
               IF input.script.prepareOk /\ input.script.queryOk THEN 1 ELSE 0
        /\ \A i \in Calls("StmtClose") : i = Len(trace)
        /\ \A i \in Calls("RowsClose") : \A j \in CursorCalls : j < i

\* a return on a mapping error of the second row, cursor and statement closed
C14_Witness ==
    /\ op = "MapRows"
    /\ ret.err = [kind |-> "Map", row |-> 2]
    /\ Len(trace) >= 2
    /\ trace[Len(trace) - 1].op = "RowsClose"
    /\ trace[Len(trace)].op = "StmtClose"

\* an engine call of the trace that failed: Prepare and Query answer as the
\* script says, the other calls carry their answer
EngineCallFailed ==
    \/ Calls("Prepare") # {} /\ ~input.script.prepareOk
    \/ Calls("Query") # {} /\ ~input.script.queryOk
    \/ \E i \in Calls("Columns") \cup Calls("Scan") : ~trace[i].arg
    \/ \E i \in Calls("Err") : trace[i].arg
    \/ \E i \in Calls("BeginTx") \cup Calls("Commit") : ~trace[i].arg
    \/ \E i \in Calls("Exec") : ~trace[i].arg.ok

\* C15: a call in which prepare, query, the column listing, a scan or the
\* cursor iteration failed returns a non-nil error and no results, from
\* MapRows, MapRow, MapRowsN and MapRowN alike; a call of Execute in which
\* begin, exec or commit failed returns a non-nil error.
C15_EngineFailureIsReturned ==
    (op # "none" /\ EngineCallFailed) =>
        /\ ret.err # NoErr
        /\ op \in {"MapRows", "MapRowsN"} => ret.results = <<>>
        /\ op \in {"MapRow", "MapRowN"} => ret.result = NilValue

\* MapRowN over a list argument: the first row mapped, the scan of the second
\* failed
C15_Witness ==
    /\ op = "MapRowN"
    /\ IsSlice(input.args[<<"a">>])
    /\ \E i \in Calls("Scan") : ~trace[i].arg
    /\ Calls("mapFunc") # {}
    /\ ret.err # NoErr

\* C16: MapRows and MapRow leave the caller's positional args as they were,
\* element for element, also when an element is a list.
C16_ArgsUnchanged ==
    (op \in {"MapRows", "MapRow"}) => ret.args = input.args

\* the placeholder tokens of the query of the call
PlaceholderTokens == SelectSeq(Fields(input.sql), HasPrefix)

\* the characters namedParameters strips off the two ends of a token
StripChars == {":", "(", ")"}

OnlyStripChars(q) == \A i \in 1..Len(q) : q[i] \in StripChars

\* key is the token w without the strip characters at its two ends
IsBareNameOf(key, w) ==
    \E i \in 1..Len(w) + 1 : \E j \in 0..Len(w) :
        /\ i <= j + 1
        /\ key = SubSeq(w, i, j)
        /\ OnlyStripChars(SubSeq(w, 1, i - 1))
        /\ OnlyStripChars(SubSeq(w, j + 1, Len(w)))
        /\ key # <<>> => key[1] \notin StripChars /\ key[Len(key)] \notin StripChars

\* the value the caller stored in args under a key, nil when there is none
Supplied(key) == IF key \in DOMAIN input.args THEN input.args[key] ELSE NilValue

\* C17 as stated: every placeholder token has an entry keyed by its name with
\* the leading colon, holding the value the caller stored under that
\* colon-prefixed key.
C17_KeysCarryColon ==
    (op = "namedParameters") =>
        \A i \in 1..Len(PlaceholderTokens) :
            \E key \in DOMAIN ret.entries :
                /\ \E bare \in {SubSeq(key, 2, Len(key))} :
                       key = <<":">> \o bare /\ IsBareNameOf(bare, PlaceholderTokens[i])
                /\ ret.entries[key].name = key
                /\ ret.entries[key].val = Supplied(key)

\* C17, amended: namedParameters keys every entry by the placeholder's name
\* without the colon (the token with ':', '(' and ')' stripped off both ends),
\* every placeholder token has such an entry, and the entry holds the value
\* the caller stored under that bare name: a value stored under a
\* colon-prefixed key is not bound and the entry's value is nil.
C17_KeysAreBareNames ==
    (op = "namedParameters") =>
        /\ \A i \in 1..Len(PlaceholderTokens) :
               \E key \in DOMAIN ret.entries : IsBareNameOf(key, PlaceholderTokens[i])
        /\ \A key \in DOMAIN ret.entries :
               /\ \E i \in 1..Len(PlaceholderTokens) : IsBareNameOf(key, PlaceholderTokens[i])
               /\ ret.entries[key].name = key
               /\ ret.entries[key].val = Supplied(key)

\* a query with the placeholder :a and args with the key ":a": the entry is
\* keyed "a" and holds nil
C17_Witness ==
    /\ op = "namedParameters"
    /\ <<":", "a">> \in DOMAIN input.args
    /\ \E i \in 1..Len(PlaceholderTokens) : PlaceholderTokens[i] = <<":", "a">>
    /\ <<"a">> \in DOMAIN ret.entries
    /\ ret.entries[<<"a">>].val = NilValue
    /\ <<":", "a">> \notin DOMAIN ret.entries

RECURSIVE SlotsBefore(_, _, _)
\* the slots of the first n placeholders of names, by the entries' lengths
SlotsBefore(names, entries, n) ==
    IF n = 0 THEN 0
    ELSE SlotsBefore(names, entries, n - 1) + entries[names[n]].len

\* C18: after a rewrite that succeeded, the position of the entry of every
\* placeholder that has a slot is the number of the first marker written for
\* that placeholder in the rewritten text.
C18_PositionIsFirstMarker ==
    (op = "substitute" /\ ret.err = NoErr) =>
        LET names == PlaceholderNames(input.sql)
            nums  == DollarNumbers(ret.query)
        IN  \A i \in 1..Len(names) :
                ret.entries[names[i]].len >= 1 =>
                    ret.entries[names[i]].pos = nums[SlotsBefore(names, ret.entries, i - 1) + 1]

RECURSIVE FirstOccurrencesFrom(_, _, _)
\* the fields from field i on without the placeholder tokens whose name is in
\* seen or came earlier among them
FirstOccurrencesFrom(fields, i, seen) ==
    IF i > Len(fields) THEN <<>>
    ELSE IF HasPrefix(fields[i])
         THEN IF TrimFunc(fields[i]) \in seen
              THEN FirstOccurrencesFrom(fields, i + 1, seen)
              ELSE <<fields[i]>>
                   \o FirstOccurrencesFrom(fields, i + 1, seen \cup {TrimFunc(fields[i])})
         ELSE <<fields[i]>> \o FirstOccurrencesFrom(fields, i + 1, seen)

\* C19: a placeholder token whose name came earlier in the text changes
\* nothing in the first pass: the entries, their positions included, are
\* those of the text without the repeated tokens.
C19_RepeatedNameIsSkipped ==
    (op = "namedParameters") =>
        ret.entries =
            namedParametersFrom(FirstOccurrencesFrom(Fields(input.sql), 1, {}),
                                input.args, 1, EmptyMap, 0)

\* the distinct placeholder names of the query of the call
DistinctNames ==
    LET names == PlaceholderNames(input.sql)
    IN  {names[i] : i \in 1..Len(names)}

\* C20: MapRowsN and MapRowN fail with the argument-count-mismatch error, and
\* make no call on the engine, whenever the number of distinct placeholder
\* names of the text differs from the number of entries of args.  The calls
\* looked at are those in which args binds every name of the text, so that
\* the two numbers differ by entries of args that the text does not name.
C20_CountMismatchFails ==
    (/\ IsNormCall
     /\ DistinctNames \subseteq DOMAIN input.args
     /\ Cardinality(DistinctNames) # Cardinality(DOMAIN input.args)) =>
        /\ NormFailed
        /\ ret.err.inner.kind = "CountMismatch"
        /\ trace = <<>>

RECURSIVE StripOuterLeft(_)
\* w without its leading characters that are neither letters nor digits
StripOuterLeft(w) ==
    IF Len(w) > 0 /\ ~IsLetter(w[1]) /\ ~IsNumber(w[1]) THEN StripOuterLeft(Tail(w)) ELSE w

RECURSIVE StripOuterRight(_)
StripOuterRight(w) ==
    IF Len(w) > 0 /\ ~IsLetter(w[Len(w)]) /\ ~IsNumber(w[Len(w)])
    THEN StripOuterRight(SubSeq(w, 1, Len(w) - 1)) ELSE w

\* the parameter a placeholder token stands for when all the punctuation
\* around its name is dropped: that of ":id" for ":id,", ":id;" and ":id)"
ClaimedName(w) == StripOuterRight(StripOuterLeft(w))

ClaimedNames(sql) ==
    LET ps == SelectSeq(Fields(sql), HasPrefix)
    IN  [i \in 1..Len(ps) |-> ClaimedName(ps[i])]

\* C21: a placeholder token with punctuation around its name stands for the
\* parameter of that name: a call whose placeholders, so read, are distinct
\* and bound by args succeeds and hands their values to the engine in the
\* order of the placeholders.
C21_PunctuationIsStripped ==
    (/\ IsNormCall
     /\ Distinct(ClaimedNames(input.sql))
     /\ \A i \in 1..Len(ClaimedNames(input.sql)) :
            ClaimedNames(input.sql)[i] \in DOMAIN input.args) =>
        /\ ret.err = NoErr
        /\ ret.newArgs = ExpectedArgs(ClaimedNames(input.sql), input.args)

\* C22: every parameter entry has at least one slot, so a rewrite that
\* succeeded has written at least one marker for every placeholder token.
C22_SlotCountAtLeastOne ==
    (op = "substitute") =>
        /\ \A key \in DOMAIN ret.entries :
               /\ ret.entries[key].len >= 1
               /\ ~IsSlice(ret.entries[key].val) => ret.entries[key].len = 1
        /\ ret.err = NoErr =>
               Len(DollarNumbers(ret.query)) >= Len(PlaceholderTokens)

\* the name of the type an accessor asks for, as its error gives it
TargetOf(acc) ==
    IF acc = "String" THEN "string"
    ELSE IF acc = "Bytes" THEN "[]byte"
    ELSE IF acc = "Bool" THEN "bool"
    ELSE IF acc = "Float64" THEN "float64"
    ELSE IF acc = "Float32" THEN "float32"
    ELSE TypeOf(acc)

\* C23: the error a typed accessor records when the stored value of an
\* existing column has a shape it does not take carries the column key, the
\* requested type and the value stored in the row for that column.
C23_ErrorCarriesObservedValue ==
    (op \in TypedAccessors /\ input \in DOMAIN m /\ m[input].t \notin Accepts(op)) =>
        /\ Len(errors) >= 1
        /\ errors[Len(errors)].kind = "ColReadError"
        /\ errors[Len(errors)].key = input
        /\ errors[Len(errors)].target = TargetOf(op)
        /\ InterfaceEq(errors[Len(errors)].value, m[input])

RECURSIVE SplitOnSpaceFrom(_, _, _)
\* the pieces of text between its blanks, empty pieces included
SplitOnSpaceFrom(text, i, cur) ==
    IF i > Len(text) THEN <<cur>>
    ELSE IF text[i] = " "
         THEN <<cur>> \o SplitOnSpaceFrom(text, i + 1, <<>>)
         ELSE SplitOnSpaceFrom(text, i + 1, Append(cur, text[i]))

SplitOnSpace(text) == SplitOnSpaceFrom(text, 1, <<>>)

\* the pieces of a rewritten text that are not of a marker
IsWord(piece) == piece # <<>> /\ piece[1] # "$"

\* the tokens of a text, by the white space of the claim: tabs and newlines
\* count as blanks, and the pieces between blanks that are empty are dropped
Tokens(text) ==
    SelectSeq(SplitOnSpace([i \in 1..Len(text) |->
                               IF text[i] \in {"\n", "\t"} THEN " " ELSE text[i]]),
              LAMBDA w : w # <<>>)

RECURSIVE AfterDigits(_, _)
\* the index of the first character from text[i] on that is not a digit
AfterDigits(text, i) ==
    IF i <= Len(text) /\ text[i] \in {DigitChars[k] : k \in 1..10}
    THEN AfterDigits(text, i + 1)
    ELSE i

RECURSIVE WithoutMarkersFrom(_, _)
\* text[i..] without its markers and without the ", " between two markers
WithoutMarkersFrom(text, i) ==
    IF i > Len(text) THEN <<>>
    ELSE IF text[i] = "$"
         THEN LET j == AfterDigits(text, i + 1) IN
              IF j + 2 <= Len(text) /\ text[j] = "," /\ text[j + 1] = " "
                                    /\ text[j + 2] = "$"
              THEN WithoutMarkersFrom(text, j + 2)
              ELSE WithoutMarkersFrom(text, j)
         ELSE <<text[i]>> \o WithoutMarkersFrom(text, i + 1)

WithoutMarkers(text) == WithoutMarkersFrom(text, 1)

\* C24: substitute leaves every token that does not begin with a colon as it
\* is and in its order, and joins all tokens, rewritten or not, with exactly
\* one blank: without the markers the result is the tokens of the query,
\* those of the placeholders emptied, joined by single blanks, whatever blanks,
\* tabs and newlines the query had between and around them, and no tab or
\* newline is left; a query without placeholders gives no error and its
\* tokens joined by single blanks.
C24_OtherTokensKept ==
    op = "substitute" =>
        LET tokens == Tokens(input.sql) IN
        /\ (\A i \in 1..Len(tokens) : ~HasPrefix(tokens[i])) =>
               /\ ret.err = NoErr
               /\ ret.query = Join(tokens, <<" ">>)
        /\ ret.err = NoErr =>
               /\ WithoutMarkers(ret.query)
                      = Join([i \in 1..Len(tokens) |->
                                 IF HasPrefix(tokens[i]) THEN <<>> ELSE tokens[i]],
                             <<" ">>)
               /\ SelectSeq(SplitOnSpace(ret.query), IsWord)
                      = SelectSeq(tokens, LAMBDA w : ~HasPrefix(w))
               /\ \A i \in 1..Len(ret.query) : ret.query[i] \notin {"\n", "\t"}

\* a query that starts with a tab and has a newline between a word and a
\* placeholder, rewritten to the word, one blank and the marker
C24_Witness ==
    /\ op = "substitute"
    /\ input.sql = <<"\t", "s", "\n", ":", "a">>
    /\ input.args = (<<"a">> :> IntValue(10))
    /\ ret.err = NoErr
    /\ ret.query = <<"s", " ", "$", "1">>

\* the value of a column in the d-th row of the cursor
ColumnOf(d, key) ==
    input.rows[d].vals[CHOOSE i \in 1..Len(input.cols) : input.cols[i] = key]

\* the accessor calls made on the d-th RowMap that failed, in their order
FailedOn(d) ==
    SelectSeq(hist, LAMBDA c : c.dec = d /\ ColumnOf(d, c.key).t \notin Accepts(c.acc))

\* C25: every RowMap MapRows has built holds the values of its own row,
\* whatever rows were scanned after it, and its errors are those of the
\* failed accessor calls made on it and of no other call: none when it is
\* built, and none from a call made on the RowMap of another row.
C25_OneDecoderPerRow ==
    (op \in {"toMap", "mapFunc"}) =>
        \A d \in 1..Len(ret.rowMaps) :
            /\ DOMAIN ret.rowMaps[d].m = {input.cols[i] : i \in 1..Len(input.cols)}
            /\ \A key \in DOMAIN ret.rowMaps[d].m : ret.rowMaps[d].m[key] = ColumnOf(d, key)
            /\ Len(ret.rowMaps[d].errors) = Len(FailedOn(d))
            /\ \A i \in 1..Len(FailedOn(d)) : ret.rowMaps[d].errors[i].key = FailedOn(d)[i].key

\* two rows of different values read; a call on the first row's RowMap,
\* made after the second row was scanned, failed, and the second row's
\* RowMap has no error
C25_Witness ==
    /\ Len(ret.rowMaps) = 2
    /\ input.rows[1] # input.rows[2]
    /\ ret.values = input.rows[2].vals
    /\ \E i \in 1..Len(hist) : hist[i].dec = 1 /\ hist[i].at = 2
    /\ Len(ret.rowMaps[1].errors) = 1
    /\ ret.rowMaps[2].errors = <<>>

\* C26: a call of the earlier Execute that began a transaction executes the
\* statement exactly once and ends the transaction exactly once: by a commit
\* and no rollback when the exec succeeded, by a rollback and no commit when
\* it failed, and then it returns an error.
C26_EarlierExecuteEndsOnce ==
    (op = "ExecuteEarlier" /\ input.script.beginOk) =>
        /\ Cardinality(Calls("Exec")) = 1
        /\ Cardinality(Calls("Commit") \cup Calls("Rollback")) = 1
        /\ input.script.execOk => Calls("Rollback") = {}
        /\ ~input.script.execOk => (Calls("Commit") = {} /\ ret.err # NoErr)

----------------------------------------------------------------------------
(* PostgresConnector: GetConnection and Close called from several         *)
(* goroutines.  A section of GetConnection that runs with c.mu held is one *)
(* step, and so is everything a goroutine does between two such sections;  *)
(* Close holds c.mu over two steps, c.db.Close() and c.db = nil, between    *)
(* which the unlocked read of c.db in GetConnection can run.  The          *)
(* handle n is the nth one tryConnect returned; handles[n] tells what       *)
(* became of it: "fresh" (returned by tryConnect, not stored), "stored"     *)
(* (written to c.db), "overwritten" (replaced in c.db while open) or        *)
(* "closed" (closed by Close).  Of a call, the model keeps the position    *)
(* pc, the locals i, db and lastErr (set or not), the result out, and for  *)
(* the claims: gets (the calls the goroutine has made), saw (c.db as read  *)
(* under the mutex) and attempts (the calls of tryConnect).                *)

\* the goroutines that use the connector
NumCallers == 2
\* the most GetConnection calls made on the connector
MaxGets == 3

Callers == 1 .. NumCallers

\* maxRetries := 3
maxRetries == 3

\* a goroutine outside GetConnection that has made no call yet
NoCall ==
    [pc |-> "idle", gets |-> 0, i |-> 0, db |-> 0, lastErr |-> FALSE,
     saw |-> 0, attempts |-> 0, out |-> [db |-> 0, err |-> NoErr]]

InitConnector ==
    /\ op = "none"
    /\ input = <<>>
    /\ ret = <<>>
    /\ trace = <<>>
    /\ m = <<>>
    /\ errors = <<>>
    /\ hist = <<>>
    /\ connector = NewPostgresConnector
    /\ calls = [p \in Callers |-> NoCall]
    /\ handles = <<>>

RECURSIVE GetsUpTo(_)
\* the GetConnection calls the goroutines 1 .. n have made
GetsUpTo(n) == IF n = 0 THEN 0 ELSE calls[n].gets + GetsUpTo(n - 1)

\* a goroutine enters GetConnection
Call(p) ==
    /\ calls[p].pc = "idle"
    /\ GetsUpTo(NumCallers) < MaxGets
    /\ calls' = [calls EXCEPT ![p] =
                    [NoCall EXCEPT !.pc = "lock", !.gets = calls[p].gets + 1]]
    /\ UNCHANGED <<coreVars, connector, handles>>

\* c.mu.Lock(); if c.db != nil { c.mu.Unlock(); ... }; c.mu.Unlock()
LockAndCheck(p) ==
    /\ calls[p].pc = "lock"
    /\ ~connector.mu
    /\ calls' = [calls EXCEPT ![p].saw = connector.db,
                              ![p].pc = IF connector.db # 0 THEN "cached"
                                                            ELSE "loop"]
    /\ UNCHANGED <<coreVars, connector, handles>>

\* return c.db, nil: c.db is read after c.mu was released
ReturnCached(p) ==
    /\ calls[p].pc = "cached"
    /\ calls' = [calls EXCEPT ![p].out = [db |-> connector.db, err |-> NoErr],
                              ![p].pc = "idle"]
    /\ UNCHANGED <<coreVars, connector, handles>>

\* the loop test i < maxRetries
LoopContinues(i) == i < maxRetries

\* one turn of the loop: tryConnect returns a handle that answers the ping,
\* or an error; after an error the goroutine sleeps and increments i
TryConnect(p) ==
    /\ calls[p].pc = "loop"
    /\ LoopContinues(calls[p].i)
    /\ \E ok \in BOOLEAN :
          IF ok
          THEN /\ handles' = Append(handles, "fresh")
               /\ calls' = [calls EXCEPT ![p].db = Len(handles) + 1,
                                         ![p].attempts = calls[p].attempts + 1,
                                         ![p].pc = "store"]
          ELSE /\ handles' = handles
               /\ calls' = [calls EXCEPT ![p].lastErr = TRUE,
                                         ![p].attempts = calls[p].attempts + 1,
                                         ![p].i = calls[p].i + 1]
    /\ UNCHANGED <<coreVars, connector>>

\* c.mu.Lock(); c.db = db; c.mu.Unlock(); return db, nil
Store(p) ==
    /\ calls[p].pc = "store"
    /\ ~connector.mu
    /\ connector' = [connector EXCEPT !.db = calls[p].db]
    /\ handles' = [h \in DOMAIN handles |->
                      IF h = calls[p].db THEN "stored"
                      ELSE IF h = connector.db /\ handles[h] = "stored"
                           THEN "overwritten"
                           ELSE handles[h]]
    /\ calls' = [calls EXCEPT ![p].out = [db |-> calls[p].db, err |-> NoErr],
                              ![p].pc = "idle"]
    /\ UNCHANGED coreVars

\* return nil, fmt.Errorf("failed to connect after %d attempts: %v", ...)
GiveUp(p) ==
    /\ calls[p].pc = "loop"
    /\ ~LoopContinues(calls[p].i)
    /\ calls' = [calls EXCEPT
                    ![p].out = [db |-> 0,
                                err |-> [kind |-> "failed to connect"]],
                    ![p].pc = "idle"]
    /\ UNCHANGED <<coreVars, connector, handles>>

\* Close, up to c.db.Close(): c.mu.Lock(); if c.db != nil { c.db.Close();
\* the handle is closed while c.db still holds it and c.mu stays locked
CloseDb ==
    /\ ~connector.mu
    /\ connector.db # 0
    /\ connector' = [connector EXCEPT !.mu = TRUE]
    /\ handles' = [handles EXCEPT ![connector.db] = "closed"]
    /\ UNCHANGED <<coreVars, calls>>

\* Close, from there on: c.db = nil; return err, and the deferred
\* c.mu.Unlock()
CloseUnset ==
    /\ connector.mu
    /\ connector' = [connector EXCEPT !.db = 0, !.mu = FALSE]
    /\ UNCHANGED <<coreVars, calls, handles>>

\* the steps of a GetConnection call that was entered
Step(p) ==
    \/ LockAndCheck(p)
    \/ ReturnCached(p)
    \/ TryConnect(p)
    \/ Store(p)
    \/ GiveUp(p)

NextConnector ==
    \/ \E p \in Callers : Call(p)
    \/ \E p \in Callers : LockAndCheck(p)
    \/ \E p \in Callers : ReturnCached(p)
    \/ \E p \in Callers : TryConnect(p)
    \/ \E p \in Callers : Store(p)
    \/ \E p \in Callers : GiveUp(p)
    \/ CloseDb
    \/ CloseUnset

\* goroutines call GetConnection and Close in any interleaving
SpecConnector == InitConnector /\ [][NextConnector]_vars

\* the same, a call that was entered running on: the scheduler runs every
\* goroutine, tryConnect returns, the sleep between two attempts ends, and a
\* Close that holds the mutex gets out of c.db.Close() and releases it
SpecConnectorFair ==
    /\ InitConnector
    /\ [][NextConnector]_vars
    /\ \A p \in Callers : WF_vars(Step(p))
    /\ WF_vars(CloseUnset)

----------------------------------------------------------------------------
(* Claims about the connector. *)

\* the handles that tryConnect returned
Established == DOMAIN handles

\* GetConnection calls that returned a handle
Received == {p \in Callers : calls[p].pc = "idle" /\ calls[p].out.db # 0}

\* no Close has closed a handle
NoCloseYet == \A h \in DOMAIN handles : handles[h] # "closed"

\* C27: under any interleaving of concurrent GetConnection calls on one
\* connector, with no Close in between, at most one handle is established
\* and stored, every caller receives that same handle, and no established
\* handle is overwritten in the connector without being closed.
C27_OneSharedHandle ==
    NoCloseYet =>
        /\ Cardinality(Established) <= 1
        /\ \A p, q \in Received : calls[p].out.db = calls[q].out.db
        /\ \A h \in DOMAIN handles : handles[h] # "overwritten"

\* GetConnection calls that have returned
Returned == {p \in Callers : calls[p].pc = "idle" /\ calls[p].gets > 0}

\* what a call that has returned did, by the case it was in
ReturnedAsClaimed(p) ==
    LET call == calls[p] IN
    IF call.saw # 0
    THEN \* a handle was stored: it is returned and no attempt is made
         /\ call.attempts = 0
         /\ call.out = [db |-> call.saw, err |-> NoErr]
    ELSE IF call.out.err = NoErr
    THEN \* the last attempt is the first that succeeded: its handle is
         \* returned and was stored
         /\ call.attempts = call.i + 1
         /\ call.attempts <= 3
         /\ call.db # 0
         /\ call.out.db = call.db
         /\ handles[call.db] # "fresh"
    ELSE \* 3 attempts failed: an error, and no handle returned or stored
         /\ call.attempts = 3
         /\ call.out.db = 0
         /\ call.db = 0

\* C28: a GetConnection call ends after at most 3 connection attempts: it
\* returns the stored handle without an attempt when there is one, else it
\* returns and stores the handle of the first attempt that succeeds, and
\* after 3 failed attempts it returns an error and stores nothing, so that
\* a call that finds no stored handle makes attempts again.
C28_EndsWithinThreeAttempts ==
    /\ [](\A p \in Callers :
             /\ calls[p].attempts <= 3
             /\ (p \in Returned => ReturnedAsClaimed(p)))
    /\ \A p \in Callers : (calls[p].pc # "idle") ~> (calls[p].pc = "idle")

====
